---- MODULE Spec2Model ----
(***************************************************************************)
(* FixedNFOParser (src/nfo_parser_fixed.py): the tolerant NFO metadata     *)
(* parser.  parse_nfo runs four extraction strategies in turn over one     *)
(* sidecar file and returns the first result that _has_meaningful_data     *)
(* accepts.                                                                *)
(*                                                                         *)
(* A file's content is a sequence of tokens.  A token is a record          *)
(* [k, v]: k = "o" is an opening tag <v>, k = "c" a closing tag </v>,      *)
(* k = "t" one unit of character data.  The character data units are the   *)
(* single characters the code distinguishes (letters, digits, space, TAB,  *)
(* NL, NUL, &, <) and the tails of entity references ("amp;", "lt;"), so the   *)
(* reference &amp; is the two units "&" "amp;".  Strings of the program    *)
(* are sequences of such tokens.  The rating is kept in hundredths.        *)
(***************************************************************************)
EXTENDS Integers, Sequences, FiniteSets, TLC

\* ------------------------------------------------------------- tokens

Ch(c) == [k |-> "t", v |-> c]

Open(n) == [k |-> "o", v |-> n]

Close(n) == [k |-> "c", v |-> n]

Str(cs) == [i \in 1..Len(cs) |-> Ch(cs[i])]

\* str.isspace(), \s and XML white space in the alphabet: space, TAB, newline
IsSpace(t) == t.k = "t" /\ t.v \in {" ", "TAB", "NL"}

\* unicodedata.category(char)[0] == 'C' in the alphabet: NUL, TAB, newline (Cc)
IsControl(t) == t.k = "t" /\ t.v \in {"NUL", "TAB", "NL"}

\* [\x00-\x08\x0B\x0C\x0E-\x1F]: NUL is in the class, TAB (\x09) and newline (\x0A) are not
IsStrippedControl(t) == t.k = "t" /\ t.v = "NUL"

\* the character the XML parser (expat) rejects anywhere in a document
IsXmlIllegal(t) == t.k = "t" /\ t.v = "NUL"

Amp == Ch("&")

\* the reference tails the XML parser resolves, and what each stands for
XmlEntity ==
    [x \in {"amp;", "lt;", "#65;"} |->
        IF x = "amp;" THEN "&" ELSE IF x = "lt;" THEN "<" ELSE "A"]

IsEntityTail(t) == t.k = "t" /\ t.v \in DOMAIN XmlEntity

\* ------------------------------------------------------ string helpers

RECURSIVE LStrip(_)
LStrip(s) == IF s # <<>> /\ IsSpace(Head(s)) THEN LStrip(Tail(s)) ELSE s

RECURSIVE RStrip(_)
RStrip(s) ==
    IF s # <<>> /\ IsSpace(s[Len(s)]) THEN RStrip(SubSeq(s, 1, Len(s) - 1)) ELSE s

\* str.strip()
Strip(s) == RStrip(LStrip(s))

\* html.unescape: one left-to-right pass, each reference replaced once
RECURSIVE HtmlUnescape(_)
HtmlUnescape(s) ==
    IF s = <<>> THEN <<>>
    ELSE IF Head(s) = Amp /\ Len(s) >= 2 /\ IsEntityTail(s[2])
         THEN <<Ch(XmlEntity[s[2].v])>> \o HtmlUnescape(SubSeq(s, 3, Len(s)))
         ELSE <<Head(s)>> \o HtmlUnescape(Tail(s))

\* a cleaning that leaves control characters in the text
KeepControl(s) == s

\* ''.join(char for char in text if unicodedata.category(char)[0] != 'C')
RemoveControl(s) == SelectSeq(s, LAMBDA t : ~IsControl(t))

\* re.sub(r'\s+', ' ', text)
RECURSIVE CollapseSpace(_)
CollapseSpace(s) ==
    IF s = <<>> THEN <<>>
    ELSE IF IsSpace(Head(s))
         THEN <<Ch(" ")>> \o CollapseSpace(LStrip(s))
         ELSE <<Head(s)>> \o CollapseSpace(Tail(s))

\* a cleaning that collapses white space before it removes control characters
CleanCollapseFirst(text) ==
    IF text = <<>> THEN <<>>
    ELSE Strip(RemoveControl(CollapseSpace(HtmlUnescape(text))))

_clean_text(text) ==
    IF text = <<>> THEN <<>>
    ELSE Strip(CollapseSpace(RemoveControl(HtmlUnescape(text))))

\* re.sub(r'&(?!(?:amp|lt|gt|quot|apos|#\d+|#x[0-9a-fA-F]+);)', '&amp;', content)
RECURSIVE EscapeBareAmp(_)
EscapeBareAmp(s) ==
    IF s = <<>> THEN <<>>
    ELSE IF Head(s) = Amp /\ ~(Len(s) >= 2 /\ IsEntityTail(s[2]))
         THEN <<Amp, Ch("amp;")>> \o EscapeBareAmp(Tail(s))
         ELSE <<Head(s)>> \o EscapeBareAmp(Tail(s))

\* a sanitiser that deletes a bare & instead of escaping it
FixDropsBareAmp(content) ==
    LET kept == SelectSeq(content, LAMBDA t : ~IsStrippedControl(t))
        bare == {i \in 1..Len(kept) :
                    kept[i] = Amp /\ ~(i < Len(kept) /\ IsEntityTail(kept[i + 1]))}
    IN  SelectSeq([i \in 1..Len(kept) |-> IF i \in bare THEN Ch("NUL") ELSE kept[i]],
                  LAMBDA t : ~IsStrippedControl(t))

\* a sanitiser that knows the named references only
FixNamedOnly(content) ==
    LET kept == SelectSeq(content, LAMBDA t : ~IsStrippedControl(t))
        piece(j) == IF kept[j] = Amp
                       /\ ~(j < Len(kept) /\ kept[j + 1] \in {Ch("amp;"), Ch("lt;")})
                    THEN <<Amp, Ch("amp;")>> ELSE <<kept[j]>>
        F[j \in 0..Len(kept)] == IF j = 0 THEN <<>> ELSE F[j - 1] \o piece(j)
    IN  F[Len(kept)]

\* a sanitiser that escapes every &
FixEscapesAll(content) ==
    LET kept == SelectSeq(content, LAMBDA t : ~IsStrippedControl(t))
        piece(j) == IF kept[j] = Amp THEN <<Amp, Ch("amp;")>> ELSE <<kept[j]>>
        F[j \in 0..Len(kept)] == IF j = 0 THEN <<>> ELSE F[j - 1] \o piece(j)
    IN  F[Len(kept)]

_fix_xml_issues(content) ==
    EscapeBareAmp(SelectSeq(content, LAMBDA t : ~IsStrippedControl(t)))

\* --------------------------------------------------- the record (dict)

\* data[key] = value, adding the key when the dict does not hold it yet
Put(d, key, value) ==
    [x \in (DOMAIN d) \cup {key} |-> IF x = key THEN value ELSE d[x]]

\* dict.get(key, default)
Get(d, key, default) == IF key \in DOMAIN d THEN d[key] ELSE default

\* ------------------------------------------------- float(rating text)

DigitChars == <<"0", "1", "2", "3", "4", "5", "6", "7", "8", "9">>

IsDigit(t) == t.k = "t" /\ \E i \in 1..Len(DigitChars) : DigitChars[i] = t.v

DigitVal(t) == (CHOOSE i \in 1..Len(DigitChars) : DigitChars[i] = t.v) - 1

RECURSIVE IntOf(_)
IntOf(ds) ==
    IF ds = <<>> THEN 0
    ELSE IntOf(SubSeq(ds, 1, Len(ds) - 1)) * 10 + DigitVal(ds[Len(ds)])

\* float(value) raises ValueError unless value is digits[.digits]
IsFloat(value) ==
    LET dots == {i \in 1..Len(value) : value[i] = Ch(".")}
    IN  /\ Cardinality(dots) <= 1
        /\ \E i \in 1..Len(value) : IsDigit(value[i])
        /\ \A i \in 1..Len(value) : IsDigit(value[i]) \/ value[i] = Ch(".")

\* float(value), in hundredths.  Fraction digits past the second are below
\* the model's resolution.
Float(value) ==
    LET dots == {i \in 1..Len(value) : value[i] = Ch(".")}
        dot == IF dots = {} THEN Len(value) + 1 ELSE CHOOSE i \in dots : TRUE
        ip == SubSeq(value, 1, dot - 1)
        fp == SubSeq(value, dot + 1, Len(value))
        f1 == IF Len(fp) >= 1 THEN DigitVal(fp[1]) ELSE 0
        f2 == IF Len(fp) >= 2 THEN DigitVal(fp[2]) ELSE 0
    IN  IntOf(ip) * 100 + f1 * 10 + f2

\* ------------------------------------- the XML parser (expat) and trees

\* A parsed document is the sequence of its elements in document order:
\* tag, parent (index of the parent element, 0 for the root), text (the
\* character data before the first child element, references resolved) and
\* hasChild.
NoTree == [ok |-> FALSE, nodes |-> <<>>, stack |-> <<>>, closed |-> FALSE]

RECURSIVE XmlScan(_, _, _)
XmlScan(toks, i, st) ==
    IF ~st.ok THEN st
    ELSE IF i > Len(toks) THEN [st EXCEPT !.ok = st.closed]
    ELSE
      LET t == toks[i]
          depth == Len(st.stack)
          top == IF depth = 0 THEN 0 ELSE st.stack[depth]
          AddText(c) ==
              IF st.nodes[top].hasChild THEN st
              ELSE [st EXCEPT !.nodes[top].text = @ \o <<c>>]
      IN  IF t.k = "o" THEN
              IF st.closed THEN NoTree
              ELSE LET withParent ==
                           IF top = 0 THEN st.nodes
                           ELSE [st.nodes EXCEPT ![top].hasChild = TRUE]
                       node == [tag |-> t.v, parent |-> top,
                                text |-> <<>>, hasChild |-> FALSE]
                   IN  XmlScan(toks, i + 1,
                           [st EXCEPT !.nodes = Append(withParent, node),
                                      !.stack = Append(st.stack, Len(st.nodes) + 1)])
          ELSE IF t.k = "c" THEN
              IF depth = 0 \/ st.nodes[top].tag # t.v THEN NoTree
              ELSE XmlScan(toks, i + 1,
                       [st EXCEPT !.stack = SubSeq(st.stack, 1, depth - 1),
                                  !.closed = (depth = 1)])
          ELSE IF IsXmlIllegal(t) THEN NoTree
          ELSE IF depth = 0 THEN
              IF IsSpace(t) THEN XmlScan(toks, i + 1, st) ELSE NoTree
          ELSE IF t = Amp THEN
              IF i < Len(toks) /\ IsEntityTail(toks[i + 1])
              THEN XmlScan(toks, i + 2, AddText(Ch(XmlEntity[toks[i + 1].v])))
              ELSE NoTree
          ELSE XmlScan(toks, i + 1, AddText(t))

\* ET.parse / minidom.parse of a content: [ok, nodes]; ok = FALSE is a ParseError
XmlParse(content) ==
    XmlScan(content, 1, [ok |-> TRUE, nodes |-> <<>>, stack |-> <<>>, closed |-> FALSE])

Min(S) == CHOOSE x \in S : \A y \in S : x <= y

\* elem.findall(tag): the children of element p with that tag, in document order
FindAll(nodes, p, tag) ==
    LET S == {i \in 1..Len(nodes) : nodes[i].parent = p /\ nodes[i].tag = tag}
    IN  SelectSeq([i \in 1..Len(nodes) |-> i], LAMBDA i : i \in S)

\* elem.find(tag): the first such child, 0 for None
Find(nodes, p, tag) ==
    LET S == {i \in 1..Len(nodes) : nodes[i].parent = p /\ nodes[i].tag = tag}
    IN  IF S = {} THEN 0 ELSE Min(S)

\* elem is not None and elem.text
HasText(nodes, e) == e # 0 /\ nodes[e].text # <<>>

\* a fields dict that lacks the maker tag
FieldsWithoutMaker ==
    <<"title", "originaltitle", "rating", "studio", "director",
      "publisher", "plot", "series", "runtime">>

\* the fields dict of _extract_data_safe: field name -> tag name (the same word)
fields ==
    <<"title", "originaltitle", "rating", "studio", "director",
      "maker", "publisher", "plot", "series", "runtime">>

date_fields == <<"releasedate", "premiered", "release">>

RECURSIVE ExtractFields(_, _, _)
ExtractFields(nodes, data, i) ==
    IF i > Len(fields) THEN data
    ELSE
      LET elem == Find(nodes, 1, fields[i])
          value == IF HasText(nodes, elem) THEN _clean_text(nodes[elem].text) ELSE <<>>
          next ==
              IF value = <<>> THEN data
              ELSE IF fields[i] = "rating"
                   THEN IF IsFloat(value) THEN Put(data, "rating", Float(value))
                        ELSE data
                   ELSE Put(data, fields[i], value)
      IN  ExtractFields(nodes, next, i + 1)

\* the cleaned non-empty texts of the elements es, in order
RECURSIVE CleanTexts(_, _)
CleanTexts(nodes, es) ==
    IF es = <<>> THEN <<>>
    ELSE LET e == Head(es)
             v == IF HasText(nodes, e) THEN _clean_text(nodes[e].text) ELSE <<>>
         IN  (IF v = <<>> THEN <<>> ELSE <<v>>) \o CleanTexts(nodes, Tail(es))

ExtractGenre(nodes) == CleanTexts(nodes, FindAll(nodes, 1, "genre"))

\* an actor loop that puts each name in front of the list
ExtractActorsReversed(nodes) ==
    LET actors == FindAll(nodes, 1, "actor")
        names == [i \in 1..Len(actors) |->
                      Find(nodes, actors[Len(actors) + 1 - i], "name")]
    IN  CleanTexts(nodes, names)

ExtractActors(nodes) ==
    LET actors == FindAll(nodes, 1, "actor")
        names == [i \in 1..Len(actors) |-> Find(nodes, actors[i], "name")]
    IN  CleanTexts(nodes, names)

ExtractDate(nodes, data) ==
    LET present == {i \in 1..Len(date_fields) :
                        HasText(nodes, Find(nodes, 1, date_fields[i]))}
    IN  IF present = {} THEN data
        ELSE Put(data, "release_date",
                 _clean_text(nodes[Find(nodes, 1, date_fields[Min(present)])].text))

_extract_data_safe(nodes, data) ==
    LET d1 == ExtractFields(nodes, data, 1)
        d2 == Put(d1, "genre", ExtractGenre(nodes))
        d3 == Put(d2, "actors", ExtractActors(nodes))
    IN  ExtractDate(nodes, d3)

\* ------------------------------------------- regex extraction helpers

\* the first index >= from of token tok in content, 0 when there is none
IndexFrom(content, tok, from) ==
    LET S == {i \in from..Len(content) : content[i] = tok}
    IN  IF S = {} THEN 0 ELSE Min(S)

\* re.search(r'<tag[^>]*>(.*?)</tag>', content, re.IGNORECASE | re.DOTALL):
\* the leftmost opening tag, then lazily up to the first closing tag after it
_extract_field(content, tag) ==
    LET i == IndexFrom(content, Open(tag), 1)
        j == IF i = 0 THEN 0 ELSE IndexFrom(content, Close(tag), i + 1)
    IN  IF j = 0 THEN <<>> ELSE _clean_text(SubSeq(content, i + 1, j - 1))

\* re.findall(r'<genre[^>]*>(.*?)</genre>', content, re.IGNORECASE): without
\* DOTALL the captured text cannot hold a newline
RECURSIVE GenreMatches(_, _)
GenreMatches(content, from) ==
    LET i == IndexFrom(content, Open("genre"), from)
        j == IF i = 0 THEN 0 ELSE IndexFrom(content, Close("genre"), i + 1)
    IN  IF j = 0 THEN <<>>
        ELSE IF \E x \in (i + 1)..(j - 1) : content[x] = Ch("NL")
             THEN GenreMatches(content, i + 1)
             ELSE <<SubSeq(content, i + 1, j - 1)>> \o GenreMatches(content, j + 1)

\* re.findall(r'<actor[^>]*>.*?<name[^>]*>(.*?)</name>.*?</actor>', content, re.DOTALL)
RECURSIVE ActorMatches(_, _)
ActorMatches(content, from) ==
    LET a == IndexFrom(content, Open("actor"), from)
        n == IF a = 0 THEN 0 ELSE IndexFrom(content, Open("name"), a + 1)
        m == IF n = 0 THEN 0 ELSE IndexFrom(content, Close("name"), n + 1)
        e == IF m = 0 THEN 0 ELSE IndexFrom(content, Close("actor"), m + 1)
    IN  IF e = 0 THEN <<>>
        ELSE <<SubSeq(content, n + 1, m - 1)>> \o ActorMatches(content, e + 1)

\* [self._clean_text(g) for g in matches if g.strip()]
RECURSIVE CleanMatches(_)
CleanMatches(ms) ==
    IF ms = <<>> THEN <<>>
    ELSE (IF Strip(Head(ms)) = <<>> THEN <<>> ELSE <<_clean_text(Head(ms))>>)
         \o CleanMatches(Tail(ms))

\* the fields _parse_line_by_line assigns unconditionally: key -> tag
line_fields ==
    <<<<"title", "title">>, <<"studio", "studio">>, <<"director", "director">>,
      <<"plot", "plot">>, <<"release_date", "releasedate">>,
      <<"series", "series">>, <<"runtime", "runtime">>>>

RECURSIVE AssignLineFields(_, _, _)
AssignLineFields(content, data, i) ==
    IF i > Len(line_fields) THEN data
    ELSE AssignLineFields(content,
             Put(data, line_fields[i][1], _extract_field(content, line_fields[i][2])),
             i + 1)

\* a _parse_line_by_line that resets the rating when its text is no number
LineByLineZeroing(content, data) ==
    LET d1 == AssignLineFields(content, data, 1)
        rating_text == _extract_field(content, "rating")
        d2 == IF rating_text = <<>> THEN d1
              ELSE Put(d1, "rating", IF IsFloat(rating_text) THEN Float(rating_text) ELSE 0)
        d3 == Put(d2, "genre", CleanMatches(GenreMatches(content, 1)))
    IN  Put(d3, "actors", CleanMatches(ActorMatches(content, 1)))

\* a _parse_line_by_line that appends to the lists the record holds
LineByLineAppending(content, data) ==
    LET d1 == AssignLineFields(content, data, 1)
        rating_text == _extract_field(content, "rating")
        d2 == IF rating_text # <<>> /\ IsFloat(rating_text)
              THEN Put(d1, "rating", Float(rating_text))
              ELSE d1
        d3 == Put(d2, "genre", d2["genre"] \o CleanMatches(GenreMatches(content, 1)))
    IN  Put(d3, "actors", d3["actors"] \o CleanMatches(ActorMatches(content, 1)))

\* the body of _parse_line_by_line after the file was read
LineByLine(content, data) ==
    LET d1 == AssignLineFields(content, data, 1)
        rating_text == _extract_field(content, "rating")
        d2 == IF rating_text # <<>> /\ IsFloat(rating_text)
              THEN Put(d1, "rating", Float(rating_text))
              ELSE d1
        d3 == Put(d2, "genre", CleanMatches(GenreMatches(content, 1)))
    IN  Put(d3, "actors", CleanMatches(ActorMatches(content, 1)))

\* ------------------------------------------------------------ minidom

\* Python's None where a string is expected
None == <<[k |-> "none", v |-> "None"]>>

\* for elem in doc.getElementsByTagName(tag): if elem.firstChild:
\*     data[key] = elem.firstChild.nodeValue; break
\* (every element of the document with that tag, in document order; the
\* nodeValue of a text node is its text, of an element node None)
MinidomField(nodes, data, key, tag) ==
    LET S == {i \in 1..Len(nodes) :
                  nodes[i].tag = tag /\ (nodes[i].text # <<>> \/ nodes[i].hasChild)}
    IN  IF S = {} THEN data
        ELSE Put(data, key,
                 IF nodes[Min(S)].text # <<>> THEN nodes[Min(S)].text ELSE None)

Minidom(nodes, data) ==
    MinidomField(nodes,
        MinidomField(nodes, MinidomField(nodes, data, "title", "title"),
                     "studio", "studio"),
        "series", "series")

\* ------------------------------------------------------ configuration

\* The literal default strings, each one unit of text:
\* "unknown" stands for the source's two-character word for "unknown",
\* "no-plot" for its sentence "no information for this part yet".
Unknown == <<Ch("unknown")>>

NoPlot == <<Ch("no-plot")>>

\* Config.get(key_path, default): walk the dotted path, default when a key is absent
RECURSIVE ConfigGet(_, _, _)
ConfigGet(value, keys, default) ==
    IF keys = <<>> THEN value
    ELSE IF Head(keys) \in DOMAIN value
         THEN ConfigGet(value[Head(keys)], Tail(keys), default)
         ELSE default

\* the literal mapping __init__ passes as the default of nfo_parsing.defaults
HardcodedDefaults ==
    [rating |-> 0, studio |-> Unknown, director |-> Unknown, plot |-> NoPlot]

EmptyDict == [x \in {} |-> <<>>]

\* a configured defaults mapping with values of its own
CustomDefaults ==
    [rating |-> 50, studio |-> Str(<<"n", "a">>), director |-> Str(<<"n", "a">>),
     plot |-> Str(<<"n", "a">>), maker |-> Str(<<"n", "a">>),
     series |-> Str(<<"n", "a">>)]

\* The configurations: no nfo_parsing section, a section with its own
\* defaults, a section whose defaults mapping is empty.
Configs ==
    { EmptyDict,
      [nfo_parsing |-> [defaults |-> CustomDefaults]],
      [nfo_parsing |-> [defaults |-> EmptyDict]] }

\* the data dict parse_nfo builds before the first strategy
InitialData(dflt) ==
    [title |-> <<>>,
     actors |-> <<>>,
     release_date |-> <<>>,
     rating |-> Get(dflt, "rating", 0),
     plot |-> Get(dflt, "plot", NoPlot),
     genre |-> <<>>,
     studio |-> Get(dflt, "studio", Unknown),
     director |-> Get(dflt, "director", Unknown),
     maker |-> Get(dflt, "maker", Unknown),
     publisher |-> Get(dflt, "publisher", Unknown),
     series |-> <<>>]

\* ---------------------------------------------------------- the files

\* the largest number of child elements of a sample document
MaxElems == 2

Elem(tag, text) == <<Open(tag)>> \o text \o <<Close(tag)>>

\* The child elements the sample documents are built from.
SampleElems ==
    { Elem("title", Str(<<"a">>)),
      Elem("title", Str(<<"a", "&", "b">>)),
      Elem("title", Str(<<"a", "&", "amp;", "b">>)),
      Elem("title", Str(<<"&", "amp;", "lt;">>)),
      Elem("title", Str(<<"a", " ", "NUL", " ", "b">>)),
      Elem("title", Str(<<" ">>)),
      Elem("series", Str(<<"a", "&", "b">>)),
      Elem("series", Str(<<"a", "&", "amp;", "b">>)),
      Elem("studio", Unknown),
      Elem("director", Unknown),
      Elem("rating", Str(<<"7">>)),
      Elem("rating", Str(<<"x">>)),
      Elem("genre", Str(<<"b">>)),
      Elem("actor", Elem("name", Str(<<"a">>))),
      Elem("actor", <<>>),
      Elem("actor", Elem("name", Str(<<"b">>))),
      Elem("releasedate", Str(<<" ">>)),
      Elem("premiered", Str(<<"b">>)),
      Elem("rating", Str(<<"8", ".", "2", "5">>)),
      Elem("title", Str(<<"a", "TAB", "b">>)),
      Elem("plot", NoPlot),
      Elem("runtime", Str(<<"7">>)),
      Elem("maker", Str(<<"a">>)),
      Elem("studio", Unknown) \o Elem("director", Unknown) \o Elem("plot", NoPlot),
      <<Open("plot")>> }

RECURSIVE Concat(_)
Concat(ss) == IF ss = <<>> THEN <<>> ELSE Head(ss) \o Concat(Tail(ss))

Bodies == UNION {[1..n -> SampleElems] : n \in 0..MaxElems}

\* The files: a missing file, an empty file, and the sample documents
\* <movie>...</movie>.  The element <plot> without its closing tag makes a
\* truncated document.
Files ==
    { [readable |-> FALSE, content |-> <<>>],
      [readable |-> TRUE, content |-> <<>>] }
    \cup { [readable |-> TRUE, content |-> Elem("movie", Concat(b))] : b \in Bodies }

\* --------------------------------------------------------- strategies

\* data.get(key, '') is None, so that .strip() raises AttributeError
StripRaises(data) ==
    \E key \in {"title", "studio", "director", "plot", "release_date"} :
        Get(data, key, <<>>) = None

_has_meaningful_data(data, dflt) ==
    \/ Strip(Get(data, "title", <<>>)) # <<>>
    \/ Strip(Get(data, "studio", <<>>)) # Unknown
    \/ Strip(Get(data, "director", <<>>)) # Unknown
    \/ Strip(Get(data, "plot", <<>>)) # Get(dflt, "plot", <<>>)
    \/ Get(data, "rating", 0) > 0
    \/ Len(Get(data, "actors", <<>>)) > 0
    \/ Len(Get(data, "genre", <<>>)) > 0
    \/ Strip(Get(data, "release_date", <<>>)) # <<>>

\* What one strategy call does: exc is the exception it raises ("none" when
\* it returns), data the dict as the call leaves it, leaked whether it
\* leaves a scratch file behind.
Outcome(exc, data, leaked) == [exc |-> exc, data |-> data, leaked |-> leaked]

_parse_standard_xml(f, data) ==
    IF ~f.readable THEN Outcome("OSError", data, FALSE)
    ELSE LET tree == XmlParse(f.content)
         IN  IF ~tree.ok THEN Outcome("ParseError", data, FALSE)
             ELSE Outcome("none", _extract_data_safe(tree.nodes, data), FALSE)

\* writeFails: temp_file.write raises; unlinkFails: os.unlink raises
_parse_with_recovery(f, data, writeFails, unlinkFails) ==
    IF ~f.readable THEN Outcome("OSError", data, FALSE)
    ELSE IF writeFails THEN Outcome("OSError", data, TRUE)
    ELSE LET tree == XmlParse(_fix_xml_issues(f.content))
             extracted == IF tree.ok THEN _extract_data_safe(tree.nodes, data) ELSE data
         IN  IF unlinkFails THEN Outcome("OSError", extracted, TRUE)
             ELSE IF ~tree.ok THEN Outcome("ParseError", data, FALSE)
             ELSE Outcome("none", extracted, FALSE)

\* a strategy 3 that gives up on content that is not well-formed
ParseLineByLineStrict(f, data) ==
    IF ~f.readable THEN Outcome("OSError", data, FALSE)
    ELSE IF ~XmlParse(f.content).ok THEN Outcome("ParseError", data, FALSE)
    ELSE Outcome("none", LineByLine(f.content, data), FALSE)

_parse_line_by_line(f, data) ==
    IF ~f.readable THEN Outcome("OSError", data, FALSE)
    ELSE Outcome("none", LineByLine(f.content, data), FALSE)

_parse_with_minidom(f, data) ==
    IF ~f.readable THEN Outcome("Exception", data, FALSE)
    ELSE LET doc == XmlParse(f.content)
         IN  IF ~doc.ok THEN Outcome("Exception", data, FALSE)
             ELSE Outcome("none", Minidom(doc.nodes, data), FALSE)

\* ------------------------------------------------------ the parse call

\* ------------------------------------------------------------ scanner

\* A file name of the code ABC-123: the code, a separator, a word, a dot
\* and the extension, as in ABC-123-thumb.jpg (sep "-", word "thumb") or
\* ABC-123.mp4 (no separator, no word).  A path is the file name.
FileName(sep, word, ext) == [sep |-> sep, word |-> word, ext |-> ext]

\* the empty string where a path is expected
NoPath == FileName("", "", "")

\* MediaInfo(code=code): every path empty
MediaInfo ==
    [poster_path |-> NoPath, fanart_path |-> NoPath, video_path |-> NoPath,
     trailer_path |-> NoPath, nfo_path |-> NoPath]

\* str.upper() of the words
Upper ==
    [w \in {"poster", "cover", "thumb", "thumbnail", "fanart", "trailer", "f"} |->
        CASE w = "poster" -> "POSTER" [] w = "cover" -> "COVER" [] w = "thumb" -> "THUMB"
          [] w = "thumbnail" -> "THUMBNAIL" [] w = "fanart" -> "FANART"
          [] w = "trailer" -> "TRAILER" [] w = "f" -> "F"]

\* keyword in filename.lower(): the code and the extensions hold no keyword,
\* a word holds itself, and thumbnail holds thumb
Contains(name, keyword) ==
    name.word = keyword \/ (name.word = "thumbnail" /\ keyword = "thumb")

\* the suffix patterns need the code, a hyphen, letters and a dot; the
\* first of them that matches gives the letters in upper case.  A name
\* they do not match is typed by the keyword it holds.
extract_file_type(name) ==
    IF name.sep = "-" /\ name.word # "" THEN Upper[name.word]
    ELSE IF Contains(name, "poster") THEN "POSTER"
    ELSE IF Contains(name, "fanart") THEN "FANART"
    ELSE IF Contains(name, "trailer") THEN "TRAILER"
    ELSE IF Contains(name, "thumb") THEN "THUMB"
    ELSE "None"

video_extensions == {"mp4", "mkv"}

strm_extensions == {"strm"}

image_extensions == {"jpg", "png"}

\* the keyword lists MediaScanner.__init__ reads from the configuration
MediaScanner(cfg) ==
    [poster_keywords |-> ConfigGet(cfg, <<"file_patterns", "poster_keywords">>,
                                   {"poster", "cover", "thumb"}),
     fanart_keywords |-> ConfigGet(cfg, <<"file_patterns", "fanart_keywords">>,
                                   {"fanart", "backdrop", "background"})]

categorize_file(self, name, info) ==
    LET file_type == extract_file_type(name)
    IN  IF name.ext \in video_extensions \/ name.ext \in strm_extensions
        THEN IF file_type \in {"None", "MAIN", "VIDEO"}
             THEN [info EXCEPT !.video_path = name]
             ELSE IF file_type = "TRAILER" THEN [info EXCEPT !.trailer_path = name]
             ELSE info
        ELSE IF name.ext = "nfo" THEN [info EXCEPT !.nfo_path = name]
        ELSE IF name.ext \in image_extensions
        THEN IF file_type = "POSTER" \/ \E keyword \in self.poster_keywords : Contains(name, keyword)
             THEN [info EXCEPT !.poster_path = name]
             ELSE IF file_type = "FANART"
                     \/ \E keyword \in self.fanart_keywords : Contains(name, keyword)
             THEN [info EXCEPT !.fanart_path = name]
             ELSE IF file_type = "THUMB"
             THEN IF info.poster_path = NoPath THEN [info EXCEPT !.poster_path = name] ELSE info
             ELSE info
        ELSE info

\* -------------------------------------------------------------- pages

\* The text of a page is a sequence of strings: the characters the code
\* looks at (hyphen, space, colon, quote, backslash, newline) one by one,
\* and every word it does not look inside as one string.

StartsWith(s, prefix) ==
    Len(s) >= Len(prefix) /\ SubSeq(s, 1, Len(prefix)) = prefix

\* str.replace(old, new)
RECURSIVE StrReplace(_, _, _)
StrReplace(s, old, new) ==
    IF s = <<>> THEN <<>>
    ELSE IF StartsWith(s, old)
         THEN new \o StrReplace(SubSeq(s, Len(old) + 1, Len(s)), old, new)
         ELSE <<Head(s)>> \o StrReplace(Tail(s), old, new)

\* str.find(sub, start), with Python's indices from 0 and -1 for no match
StrFind(s, sub, start) ==
    LET at == {k \in start..(Len(s) - Len(sub)) : SubSeq(s, k + 1, k + Len(sub)) = sub}
    IN  IF at = {} THEN -1 ELSE CHOOSE k \in at : \A m \in at : k <= m

\* str.strip() of a line
RECURSIVE StrStrip(_)
StrStrip(s) ==
    IF s # <<>> /\ Head(s) = " " THEN StrStrip(Tail(s))
    ELSE IF s # <<>> /\ s[Len(s)] = " " THEN StrStrip(SubSeq(s, 1, Len(s) - 1))
    ELSE s

\* str.split('\n')
RECURSIVE SplitLines(_)
SplitLines(s) ==
    LET nl == {k \in 1..Len(s) : s[k] = "\n"}
    IN  IF nl = {} THEN <<s>>
        ELSE LET k == CHOOSE k \in nl : \A m \in nl : k <= m
             IN  <<SubSeq(s, 1, k - 1)>> \o SplitLines(SubSeq(s, k + 1, Len(s)))

\* "\n".join(lines)
RECURSIVE JoinLines(_)
JoinLines(lines) ==
    IF lines = <<>> THEN <<>>
    ELSE IF Len(lines) = 1 THEN lines[1]
    ELSE lines[1] \o <<"\n">> \o JoinLines(Tail(lines))

\* actor.replace('\\', '\\\\').replace('"', '\\"')
EscapeYaml(actor) ==
    StrReplace(StrReplace(actor, <<"\\">>, <<"\\", "\\">>), <<"\"">>, <<"\\", "\"">>)

_format_actors(actors) ==
    IF actors = <<>> THEN <<" ", " ", "-", " ", "[]">>
    ELSE JoinLines([k \in 1..Len(actors) |->
                       <<" ", " ", "-", " ", "-", " ", "-", " ">> \o EscapeYaml(actors[k])])

\* the front matter of the template and the line after it, filled in for a
\* film without original title, date, runtime, series, genre and images
\* (title_jp falls back on title_cn)
generate_markdown(film) ==
    JoinLines(<<
        <<"-", "-", "-">>,
        <<"cssclasses", ":">>,
        <<" ", " ", "-", " ", "film-page">>,
        <<"CN", ":", " ">> \o film.title,
        <<"JP", ":", " ">> \o film.title,
        <<"Code", ":", " ", film.code>>,
        <<"Actor", ":">>,
        _format_actors(film.actors),
        <<"Year", ":", " ", "unknown">>,
        <<"Time", ":", " ", "170">>,
        <<"VideoRank", ":", " ", "0.0">>,
        <<"Series", ":">>,
        <<" ", " ", "-", " ", "[]">>,
        <<"Keywords", ":">>,
        <<"[]">>,
        <<"Cover", ":", " ">>,
        <<"Fanart", ":", " ">>,
        <<"-", "-", "-">>,
        <<>>,
        <<"dataviewjs">> >>)

\* the loop of _extract_actor_from_frontmatter over the lines from k on
RECURSIVE ExtractActorLines(_, _, _, _)
ExtractActorLines(lines, k, actors, found_actor_section) ==
    IF k > Len(lines) THEN actors
    ELSE LET line == StrStrip(lines[k])
         IN  IF StartsWith(line, <<"Actor", ":">>)
             THEN LET actor_name == StrStrip(StrReplace(line, <<"Actor", ":">>, <<>>))
                  IN  ExtractActorLines(lines, k + 1,
                          IF actor_name # <<>> /\ actor_name \notin {<<"-">>, <<"[]">>}
                          THEN Append(actors, actor_name) ELSE actors,
                          TRUE)
             ELSE IF found_actor_section /\ StartsWith(line, <<"-", " ", "-", " ", "-">>)
             THEN LET actor_name ==
                          StrStrip(StrReplace(line, <<"-", " ", "-", " ", "-">>, <<>>))
                  IN  ExtractActorLines(lines, k + 1,
                          IF actor_name # <<>> THEN Append(actors, actor_name) ELSE actors,
                          TRUE)
             ELSE IF found_actor_section /\ ~StartsWith(line, <<"-">>) /\ line # <<>>
                     /\ \E j \in 1..Len(line) : line[j] = ":"
             THEN ExtractActorLines(lines, k + 1, actors, FALSE)
             ELSE ExtractActorLines(lines, k + 1, actors, found_actor_section)

_extract_actor_from_frontmatter(frontmatter_text) ==
    ExtractActorLines(SplitLines(frontmatter_text), 1, <<>>, FALSE)

\* what generate_all_actor_pages gets from one film page: the list of the
\* extraction, or no list when the page has no front matter
ActorDataOf(content) ==
    IF ~StartsWith(content, <<"-", "-", "-">>) THEN <<>>
    ELSE LET frontmatter_end == StrFind(content, <<"-", "-", "-">>, 3)
         IN  IF frontmatter_end > 0
             THEN _extract_actor_from_frontmatter(SubSeq(content, 4, frontmatter_end))
             ELSE <<>>

\* actor_works after the pages with the stems from k on were read
RECURSIVE CollectWorks(_, _, _, _)
CollectWorks(dir, stems, k, works) ==
    IF k > Len(stems) THEN works
    ELSE LET actor_data == ActorDataOf(dir[stems[k]])
             kept == SelectSeq(actor_data, LAMBDA a : a # <<>> /\ a # <<"unknown">>)
             add[j \in 0..Len(kept)] ==
                 IF j = 0 THEN works
                 ELSE Put(add[j - 1], kept[j],
                          Append(Get(add[j - 1], kept[j], <<>>), stems[k]))
         IN  CollectWorks(dir, stems, k + 1, add[Len(kept)])

VARIABLES
    config,     \* the configuration the parser was constructed with
    defaults,   \* self.defaults
    file,       \* the file at nfo_path
    pc,         \* "ready", "loop" (inside parse_nfo), "returned", "raised"
    i,          \* the loop index of parse_nfo: the strategy tried next
    data,       \* the data dict of the running call
    result,     \* what parse_nfo returned
    attempts,   \* the strategies tried so far, each with what became of it
    scratch,    \* the number of scratch files on disk
    io,         \* what the scratch file I/O of strategy 2 did
    obj,        \* the identity of the dict object that data names
    history,    \* the earlier calls of this parser, each with what it returned
    input,      \* a text handed to the parser's text helpers
    applied,    \* the helpers applied to it so far, each with what it returned
    scanner,    \* the keyword lists of the MediaScanner
    media_info, \* the MediaInfo of the code whose files are scanned
    scanned,    \* the files categorised so far, each with what became of it
    films,      \* the films whose pages were generated, in order
    films_dir,  \* the films folder: the content of each film page, by file stem
    extracted,  \* what the front-matter extraction returned for each film page
    actor_works \* the works collected for each actor, one actor page each

vars == <<config, defaults, file, pc, i, data, result, attempts, scratch, io, obj, history,
          input, applied, scanner, media_info, scanned,
          films, films_dir, extracted, actor_works>>

\* the variables of the scanner
scanVars == <<scanner, media_info, scanned>>

\* the variables of the page generators
pageVars == <<films, films_dir, extracted, actor_works>>

\* a handler that catches the XML parser's error only
CaughtParseErrorOnly(exc) == exc = "ParseError"

\* except Exception: every exception of the strategies is an Exception
Caught(exc) == exc \in {"ParseError", "OSError", "AttributeError", "Exception"}

\* an except branch that leaves the loop instead of continuing
OnExceptionBreak(n) == 5

\* an except branch that goes straight to the last strategy
OnExceptionLast(n) == 4

\* the except branch's continue: on to the next strategy
OnException(n) == n + 1

\* an acceptance test that looks at the title only
AcceptsTitleOnly(out) ==
    ~StripRaises(out.data) /\ Strip(Get(out.data, "title", <<>>)) # <<>>

\* result and self._has_meaningful_data(result), once the call returned
Accepts(out) == ~StripRaises(out.data) /\ _has_meaningful_data(out.data, defaults)

\* the exception that reaches the except clause of the loop body
Raised(out) ==
    IF out.exc # "none" THEN out.exc
    ELSE IF StripRaises(out.data) THEN "AttributeError"
    ELSE "none"

\* one iteration of the loop of parse_nfo, for the strategy with outcome out
Iteration(out) ==
    /\ data' = out.data
    /\ scratch' = scratch + (IF out.leaked THEN 1 ELSE 0)
    /\ attempts' = Append(attempts,
           [n |-> i,
            outcome |-> IF Raised(out) # "none" THEN "raised"
                        ELSE IF Accepts(out) THEN "accepted" ELSE "rejected",
            before |-> data,
            data |-> out.data])
    /\ IF Raised(out) = "none"
       THEN IF Accepts(out)
            THEN pc' = "returned" /\ result' = out.data /\ i' = i
            ELSE pc' = "loop" /\ result' = result /\ i' = i + 1
       ELSE IF Caught(Raised(out))
            THEN pc' = "loop" /\ result' = result /\ i' = OnException(i)
            ELSE pc' = "raised" /\ result' = result /\ i' = i

Init ==
    /\ config \in Configs
    /\ defaults = ConfigGet(config, <<"nfo_parsing", "defaults">>, HardcodedDefaults)
    /\ file \in Files
    /\ pc = "ready"
    /\ i = 0
    /\ data = EmptyDict
    /\ result = EmptyDict
    /\ attempts = <<>>
    /\ scratch = 0
    /\ io = [write |-> "none", unlink |-> "none"]
    /\ obj = 0
    /\ history = <<>>
    /\ input = <<>>
    /\ applied = <<>>
    /\ scanner = MediaScanner(config)
    /\ media_info = MediaInfo
    /\ scanned = <<>>
    /\ films = <<>>
    /\ films_dir = EmptyDict
    /\ extracted = EmptyDict
    /\ actor_works = EmptyDict

\* data = {...}: the dict display makes a new object at each call
NewDict == Len(history) + 1

\* a parse_nfo that keeps one data dict on the parser and fills it again
\* at each call
ParseNfoSharedData ==
    /\ pc = "ready"
    /\ pc' = "loop"
    /\ i' = 1
    /\ obj' = 1
    /\ data' = IF obj = 0 THEN InitialData(defaults) ELSE data
    /\ UNCHANGED <<config, defaults, file, result, attempts, scratch, io, history, input, applied, scanVars, pageVars>>

\* parse_nfo up to its loop
ParseNfo ==
    /\ pc = "ready"
    /\ pc' = "loop"
    /\ i' = 1
    /\ obj' = NewDict
    /\ data' = InitialData(defaults)
    /\ UNCHANGED <<config, defaults, file, result, attempts, scratch, io, history, input, applied, scanVars, pageVars>>

TryStandardXml ==
    /\ pc = "loop" /\ i = 1
    /\ Iteration(_parse_standard_xml(file, data))
    /\ UNCHANGED <<config, defaults, file, io, obj, history, input, applied, scanVars, pageVars>>

TryRecovery ==
    /\ pc = "loop" /\ i = 2
    /\ \E writeFails \in BOOLEAN, unlinkFails \in BOOLEAN :
         /\ file.readable \/ (~writeFails /\ ~unlinkFails)
         /\ writeFails => ~unlinkFails
         /\ Iteration(_parse_with_recovery(file, data, writeFails, unlinkFails))
         /\ io' = [write |-> IF ~file.readable THEN "none"
                             ELSE IF writeFails THEN "failed" ELSE "ok",
                   unlink |-> IF ~file.readable \/ writeFails THEN "none"
                              ELSE IF unlinkFails THEN "failed" ELSE "ok"]
    /\ UNCHANGED <<config, defaults, file, obj, history, input, applied, scanVars, pageVars>>

TryLineByLine ==
    /\ pc = "loop" /\ i = 3
    /\ Iteration(_parse_line_by_line(file, data))
    /\ UNCHANGED <<config, defaults, file, io, obj, history, input, applied, scanVars, pageVars>>

TryMinidom ==
    /\ pc = "loop" /\ i = 4
    /\ Iteration(_parse_with_minidom(file, data))
    /\ UNCHANGED <<config, defaults, file, io, obj, history, input, applied, scanVars, pageVars>>

\* a parse_nfo that returns an empty record when no strategy was accepted
ReturnEmpty ==
    /\ pc = "loop" /\ i > 4
    /\ pc' = "returned"
    /\ result' = EmptyDict
    /\ UNCHANGED <<config, defaults, file, i, data, attempts, scratch, io, obj, history, input, applied, scanVars, pageVars>>

\* the return data after the loop
ReturnData ==
    /\ pc = "loop" /\ i > 4
    /\ pc' = "returned"
    /\ result' = data
    /\ UNCHANGED <<config, defaults, file, i, data, attempts, scratch, io, obj, history, input, applied, scanVars, pageVars>>

Next ==
    \/ ParseNfo
    \/ TryStandardXml
    \/ TryRecovery
    \/ TryLineByLine
    \/ TryMinidom
    \/ ReturnData

Spec == Init /\ [][Next]_vars

\* the largest number of calls made on one parser
MaxCalls == 3

\* the files the calls of one parser are made on: a missing file, a
\* document strategy 1 accepts, one with an unescaped &, one accepted at
\* strategy 3 only, and one no strategy accepts under the default
\* configuration
CallFiles ==
    { [readable |-> FALSE, content |-> <<>>],
      [readable |-> TRUE, content |-> Elem("movie", Elem("title", Str(<<"a">>)))],
      [readable |-> TRUE, content |-> Elem("movie", Elem("title", Str(<<"a", "&", "b">>)))],
      [readable |-> TRUE, content |-> Elem("movie", Elem("maker", Str(<<"a">>)))],
      [readable |-> TRUE,
       content |-> Elem("movie", Elem("studio", Unknown) \o Elem("director", Unknown)
                                 \o Elem("plot", NoPlot) \o Elem("title", Str(<<" ">>)))] }

\* the caller keeps the record it was given and calls parse_nfo again,
\* on the same parser, for some file
NextCall ==
    /\ pc = "returned"
    /\ Len(history) < MaxCalls - 1
    /\ history' = Append(history, [file |-> file, obj |-> obj, result |-> result, io |-> io])
    /\ \E f \in CallFiles : file' = f
    /\ pc' = "ready"
    /\ i' = 0
    /\ result' = EmptyDict
    /\ attempts' = <<>>
    /\ io' = [write |-> "none", unlink |-> "none"]
    /\ UNCHANGED <<config, defaults, data, scratch, obj, input, applied, scanVars, pageVars>>

InitCalls == Init /\ file \in CallFiles

NextCalls == Next \/ NextCall

\* a parser on which parse_nfo is called several times
SpecCalls == InitCalls /\ [][NextCalls]_vars

\* ------------------------------------------- the text helpers on texts

\* the largest length of a text handed to a helper, and the largest number
\* of helper applications in a row
MaxLen == 4

MaxApplied == 2

\* The characters of the texts: a letter, a space, a tab (a control
\* character outside the sanitizer's class), NUL (inside it), an ampersand,
\* and the tails amp; and #65; that make an ampersand before them a named
\* or a numeric reference.
TextChars == {Ch("a"), Ch(" "), Ch("TAB"), Ch("NUL"), Amp, Ch("amp;"), Ch("#65;")}

Texts == UNION {[1..n -> TextChars] : n \in 0..MaxLen}

\* the text the next helper is applied to: the input, or what the last
\* helper returned
Current == IF applied = <<>> THEN input ELSE applied[Len(applied)].value

\* content = self._fix_xml_issues(content)
ApplyFixXmlIssues ==
    /\ Len(applied) < MaxApplied
    /\ applied' = Append(applied, [op |-> "_fix_xml_issues", arg |-> Current,
                                   value |-> _fix_xml_issues(Current)])
    /\ UNCHANGED <<config, defaults, file, pc, i, data, result, attempts, scratch, io,
                   obj, history, input, scanVars, pageVars>>

\* self._clean_text(text)
ApplyCleanText ==
    /\ Len(applied) < MaxApplied
    /\ applied' = Append(applied, [op |-> "_clean_text", arg |-> Current,
                                   value |-> _clean_text(Current)])
    /\ UNCHANGED <<config, defaults, file, pc, i, data, result, attempts, scratch, io,
                   obj, history, input, scanVars, pageVars>>

\* ------------------------------------------------ the scanner on files

\* the largest number of files of one code
MaxFiles == 3

\* the files of the code ABC-123 in the source directories
ScanFiles ==
    { FileName("", "", "mp4"), FileName("-", "trailer", "mp4"), FileName("", "", "nfo"),
      FileName("-", "poster", "jpg"), FileName("-", "cover", "png"),
      FileName("-", "thumb", "jpg"), FileName(" ", "thumbnail", "jpg"),
      FileName(" ", "thumb", "png"), FileName("-", "fanart", "jpg"),
      FileName("", "", "jpg"), FileName("-", "f", "jpg") }

\* the configurations of the scanner: the default keywords, and poster
\* keywords without thumb
ScanConfigs ==
    { EmptyDict, [file_patterns |-> [poster_keywords |-> {"poster", "cover"}]] }

\* self.categorize_file(file_path, media_groups[code]), for the next file
\* of the walk; the order of the walk is the file system's
CategorizeFile ==
    /\ Len(scanned) < MaxFiles
    /\ \E name \in ScanFiles :
         /\ \A k \in 1..Len(scanned) : scanned[k].name # name
         /\ media_info' = categorize_file(scanner, name, media_info)
         /\ scanned' = Append(scanned, [name |-> name, before |-> media_info,
                                        after |-> media_info'])
    /\ UNCHANGED <<config, defaults, file, pc, i, data, result, attempts, scratch, io,
                   obj, history, input, applied, scanner, pageVars>>

\* a scanner and the MediaInfo of a code none of whose files is categorised
InitScan ==
    /\ config \in ScanConfigs
    /\ defaults = ConfigGet(config, <<"nfo_parsing", "defaults">>, HardcodedDefaults)
    /\ file = [readable |-> FALSE, content |-> <<>>]
    /\ pc = "ready"
    /\ i = 0
    /\ data = EmptyDict
    /\ result = EmptyDict
    /\ attempts = <<>>
    /\ scratch = 0
    /\ io = [write |-> "none", unlink |-> "none"]
    /\ obj = 0
    /\ history = <<>>
    /\ input = <<>>
    /\ applied = <<>>
    /\ scanner = MediaScanner(config)
    /\ media_info = MediaInfo
    /\ scanned = <<>>
    /\ films = <<>>
    /\ films_dir = EmptyDict
    /\ extracted = EmptyDict
    /\ actor_works = EmptyDict

NextScan == CategorizeFile

\* the scanner categorising the files of one code
SpecScan == InitScan /\ [][NextScan]_vars

\* --------------------------------------------- the pages of the films

\* the largest number of films and of actors of a film
MaxFilms == 1

MaxActors == 2

\* the titles and the actor names the parser hands over: plain ones, one
\* with a quote, one with three hyphens in a row
Titles == { <<"a">>, <<"b">>, <<"a", "-", "-", "-", "b">> }

Names == { <<"a">>, <<"b">>, <<"a", "\"", "b">>, <<"a", "-", "-", "-", "b">> }

ActorLists == UNION {[1..n -> Names] : n \in 0..MaxActors}

\* the code of the k-th film
CodeOf(k) == IF k = 1 THEN "ABC-1" ELSE IF k = 2 THEN "ABC-2" ELSE "ABC-3"

\* content = generator.generate_markdown(media_info);
\* generator.save_markdown(media_info, content)
GenerateMarkdown ==
    /\ Len(films) < MaxFilms
    /\ extracted = EmptyDict
    /\ \E title \in Titles, actors \in ActorLists :
         LET film == [code |-> CodeOf(Len(films) + 1), title |-> title, actors |-> actors]
         IN  /\ films' = Append(films, film)
             /\ films_dir' = Put(films_dir, film.code, generate_markdown(film))
    /\ UNCHANGED <<config, defaults, file, pc, i, data, result, attempts, scratch, io,
                   obj, history, input, applied, scanVars, extracted, actor_works>>

\* generate_all_actor_pages: every page of the films folder is read and an
\* actor page is written for every actor collected
GenerateAllActorPages ==
    /\ films # <<>>
    /\ extracted = EmptyDict
    /\ LET stems == [k \in 1..Len(films) |-> films[k].code]
       IN  /\ extracted' = [c \in DOMAIN films_dir |-> ActorDataOf(films_dir[c])]
           /\ actor_works' = CollectWorks(films_dir, stems, 1, EmptyDict)
    /\ UNCHANGED <<config, defaults, file, pc, i, data, result, attempts, scratch, io,
                   obj, history, input, applied, scanVars, films, films_dir>>

\* the generators with an empty films folder
InitPages ==
    /\ config = EmptyDict
    /\ defaults = ConfigGet(config, <<"nfo_parsing", "defaults">>, HardcodedDefaults)
    /\ file = [readable |-> FALSE, content |-> <<>>]
    /\ pc = "ready"
    /\ i = 0
    /\ data = EmptyDict
    /\ result = EmptyDict
    /\ attempts = <<>>
    /\ scratch = 0
    /\ io = [write |-> "none", unlink |-> "none"]
    /\ obj = 0
    /\ history = <<>>
    /\ input = <<>>
    /\ applied = <<>>
    /\ scanner = MediaScanner(config)
    /\ media_info = MediaInfo
    /\ scanned = <<>>
    /\ films = <<>>
    /\ films_dir = EmptyDict
    /\ extracted = EmptyDict
    /\ actor_works = EmptyDict

NextPages == GenerateMarkdown \/ GenerateAllActorPages

\* film pages generated and then read back for the actor pages
SpecPages == InitPages /\ [][NextPages]_vars

\* a parser with the default configuration and a text for its helpers
InitText ==
    /\ config = EmptyDict
    /\ defaults = ConfigGet(config, <<"nfo_parsing", "defaults">>, HardcodedDefaults)
    /\ file = [readable |-> FALSE, content |-> <<>>]
    /\ pc = "ready"
    /\ i = 0
    /\ data = EmptyDict
    /\ result = EmptyDict
    /\ attempts = <<>>
    /\ scratch = 0
    /\ io = [write |-> "none", unlink |-> "none"]
    /\ obj = 0
    /\ history = <<>>
    /\ input \in Texts
    /\ applied = <<>>
    /\ scanner = MediaScanner(config)
    /\ media_info = MediaInfo
    /\ scanned = <<>>
    /\ films = <<>>
    /\ films_dir = EmptyDict
    /\ extracted = EmptyDict
    /\ actor_works = EmptyDict

NextText == ApplyFixXmlIssues \/ ApplyCleanText

\* the text helpers of a parser, applied to every text
SpecText == InitText /\ [][NextText]_vars

\* ------------------------------------------------------------- claims

Last(seq) == seq[Len(seq)]

\* C1: for every input (missing file, empty file, malformed or truncated
\* document) and whichever strategies raise, parse_nfo never lets an
\* exception reach its caller, and what it returns is a record holding at
\* least the keys it was initialised with.
C1_NeverRaises ==
    /\ pc # "raised"
    /\ pc = "returned" => DOMAIN InitialData(defaults) \subseteq DOMAIN result

\* a call on a missing file: all four strategies raised and it returned
C1_Witness ==
    /\ pc = "returned"
    /\ ~file.readable
    /\ Len(attempts) = 4
    /\ \A k \in 1..4 : attempts[k].outcome = "raised"

\* C2: the strategies are attempted in the order 1, 2, 3, 4, each at most
\* once; an attempt that raised or was rejected is followed by the next
\* strategy (the call returns without an acceptance only after all four);
\* the first accepted attempt is the last one, and its record is returned.
C2_FixedOrder ==
    /\ Len(attempts) <= 4
    /\ \A k \in 1..Len(attempts) : attempts[k].n = k
    /\ \A k \in 1..Len(attempts) :
         attempts[k].outcome = "accepted" =>
            /\ k = Len(attempts)
            /\ pc = "returned"
            /\ result = attempts[k].data
    /\ pc = "returned" =>
         \/ Len(attempts) = 4
         \/ Last(attempts).outcome = "accepted"

\* strategy 1 raised, strategy 2 was rejected, strategy 3 was accepted
C2_Witness ==
    /\ pc = "returned"
    /\ Len(attempts) = 3
    /\ attempts[1].outcome = "raised"
    /\ attempts[2].outcome = "rejected"
    /\ attempts[3].outcome = "accepted"

\* the acceptance heuristic as the claim states it, d0 being the record of
\* configured defaults the call started from
ClaimedMeaningful(d, d0) ==
    \/ Get(d, "title", <<>>) # <<>>
    \/ Get(d, "studio", <<>>) # d0.studio
    \/ Get(d, "director", <<>>) # d0.director
    \/ Get(d, "plot", <<>>) # d0.plot
    \/ Get(d, "rating", 0) > 0
    \/ Len(Get(d, "actors", <<>>)) > 0
    \/ Len(Get(d, "genre", <<>>)) > 0
    \/ Get(d, "release_date", <<>>) # <<>>

\* C3: a strategy's result is accepted exactly when its title is non-empty,
\* or its studio, director or plot differs from the configured default, or
\* its rating is positive, or it has an actor, a genre or a release date,
\* for every configuration.
C3_AcceptanceAsClaimed ==
    \A k \in 1..Len(attempts) :
        attempts[k].outcome # "raised" =>
            (attempts[k].outcome = "accepted"
                <=> ClaimedMeaningful(attempts[k].data, InitialData(defaults)))

\* the default of a field: the configured or hardcoded one, empty for the
\* fields the initial record does not hold
FieldDefault(dflt, f) ==
    IF f \in DOMAIN InitialData(dflt) THEN InitialData(dflt)[f] ELSE <<>>

\* C4: for an empty or unreadable file every field of the returned record
\* equals its default.
C4_DefaultsOnEmptyInput ==
    (pc = "returned" /\ (~file.readable \/ file.content = <<>>)) =>
        \A f \in DOMAIN result : result[f] = FieldDefault(defaults, f)

\* the document the strategy n works on: strategy 2 parses the sanitised text
TreeOf(n) ==
    IF ~file.readable THEN NoTree
    ELSE IF n = 2 THEN XmlParse(_fix_xml_issues(file.content))
    ELSE XmlParse(file.content)

\* strategy n found a value for field f in the input
Found(n, f) ==
    IF ~file.readable THEN FALSE
    ELSE IF n = 3 THEN
        \/ \E x \in 1..Len(line_fields) :
              line_fields[x][1] = f /\ _extract_field(file.content, line_fields[x][2]) # <<>>
        \/ f = "rating" /\ _extract_field(file.content, "rating") # <<>>
        \/ f = "genre" /\ CleanMatches(GenreMatches(file.content, 1)) # <<>>
        \/ f = "actors" /\ CleanMatches(ActorMatches(file.content, 1)) # <<>>
    ELSE LET nodes == TreeOf(n).nodes IN
        /\ TreeOf(n).ok
        /\ IF n = 4
           THEN f \in {"title", "studio", "series"} /\
                \E x \in 1..Len(nodes) : nodes[x].tag = f /\ nodes[x].text # <<>>
           ELSE \/ (\E x \in 1..Len(fields) : fields[x] = f) /\ HasText(nodes, Find(nodes, 1, f))
                \/ f = "genre" /\ ExtractGenre(nodes) # <<>>
                \/ f = "actors" /\ ExtractActors(nodes) # <<>>
                \/ f = "release_date" /\
                   \E x \in 1..Len(date_fields) : HasText(nodes, Find(nodes, 1, date_fields[x]))

\* C5: after a strategy has run, every field of the record for which that
\* strategy found no value in the input holds the value it held before.
C5_OnlyFoundFieldsOverwritten ==
    \A k \in 1..Len(attempts) :
        \A f \in DOMAIN attempts[k].before :
            ~Found(attempts[k].n, f) => attempts[k].data[f] = attempts[k].before[f]

\* the fields of the data model (original title under the code's key)
RecordFields ==
    {"title", "originaltitle", "actors", "genre", "release_date", "rating", "plot",
     "studio", "director", "maker", "publisher", "series", "runtime"}

\* C6: the returned record contains every field of the data model.
C6_NoFieldAbsent == pc = "returned" => RecordFields \subseteq DOMAIN result

\* C7: once the attempt of strategy 2 has ended, no scratch file is left on
\* disk (an attempt whose delete itself failed aside).
C7_ScratchRemoved ==
    (Len(attempts) >= 2 /\ io.unlink # "failed") => scratch = 0

WellFormed == file.readable /\ XmlParse(file.content).ok

\* C8 as stated: for every well-formed document only strategy 1 is attempted.
C8_WellFormedStrategy1Only == WellFormed => Len(attempts) <= 1

\* the record strategy 1 extracts from a well-formed content
Strategy1Record(content) ==
    _extract_data_safe(XmlParse(content).nodes, InitialData(defaults))

\* C8 amended: for every well-formed document whose extracted record passes
\* the acceptance heuristic, only strategy 1 is attempted and its result is
\* what parse_nfo returns.
C8_MeaningfulStrategy1Only ==
    (/\ Len(attempts) > 1 \/ pc = "returned"
     /\ WellFormed
     /\ _has_meaningful_data(Strategy1Record(file.content), defaults)) =>
        /\ Len(attempts) <= 1
        /\ pc = "returned" =>
              attempts[1].outcome = "accepted" /\ result = Strategy1Record(file.content)

\* a well-formed, meaningful document returned after one attempt
C8_Witness ==
    /\ WellFormed
    /\ pc = "returned"
    /\ Len(attempts) = 1
    /\ result["rating"] > 0

\* the strategy n of the parsers list, its scratch file I/O succeeding
Parser(n, f, d) ==
    CASE n = 1 -> _parse_standard_xml(f, d)
      [] n = 2 -> _parse_with_recovery(f, d, FALSE, FALSE)
      [] n = 3 -> _parse_line_by_line(f, d)
      [] OTHER -> _parse_with_minidom(f, d)

\* the loop of parse_nfo from strategy n on, as a function of the file
RECURSIVE ParseNfoFrom(_, _, _)
ParseNfoFrom(f, d, n) ==
    IF n > 4 THEN d
    ELSE LET out == Parser(n, f, d)
         IN  IF Raised(out) = "none" /\ Accepts(out) THEN out.data
             ELSE ParseNfoFrom(f, out.data, IF Raised(out) = "none" THEN n + 1 ELSE OnException(n))

\* parse_nfo(nfo_path) for the file f at nfo_path
parse_nfo(f) == ParseNfoFrom(f, InitialData(defaults), 1)

\* the file's document with every unescaped & written as &amp;
Escaped == [readable |-> TRUE, content |-> EscapeBareAmp(file.content)]

\* the document is well-formed except for an unescaped &
BareAmpOnly ==
    /\ file.readable
    /\ ~XmlParse(file.content).ok
    /\ XmlParse(Escaped.content).ok

ScratchIoOk == io.write = "ok" /\ io.unlink = "ok"

TitleSource(content) ==
    LET a == IndexFrom(content, Open("title"), 1)
        b == IndexFrom(content, Close("title"), a + 1)
    IN  SubSeq(content, a + 1, b - 1)

\* the document has a title element holding character data only
HasPlainTitle(content) ==
    LET a == IndexFrom(content, Open("title"), 1)
        b == IF a = 0 THEN 0 ELSE IndexFrom(content, Close("title"), a + 1)
    IN  b # 0 /\ \A x \in (a + 1)..(b - 1) : content[x].k = "t"

\* in the tree strategy n parsed, the first title element is a child of the root
TitleIsChild(n) ==
    LET nodes == TreeOf(n).nodes
        all == {x \in 1..Len(nodes) : nodes[x].tag = "title"}
    IN  TreeOf(n).ok /\ all # {} /\ nodes[Min(all)].parent = 1

\* a source text cleaned with its entity references decoded exactly once
DecodedOnce(source) == Strip(CollapseSpace(RemoveControl(HtmlUnescape(source))))

\* C10: the title of the returned record is the title's source text with
\* its entity references decoded exactly once: &amp; yields &, and &amp;lt;
\* yields &lt;, which is not decoded again.
C10_DecodedExactlyOnce ==
    (/\ pc = "returned"
     /\ Last(attempts).outcome = "accepted"
     /\ Last(attempts).n \in {1, 2, 3}
     /\ HasPlainTitle(file.content)
     /\ Last(attempts).n \in {1, 2} => TitleIsChild(Last(attempts).n)) =>
        result["title"] = DecodedOnce(TitleSource(file.content))

\* parse_nfo as a function of the file and the stepwise call return the
\* same record when no scratch file I/O fails
ParseNfoAgrees ==
    (pc = "returned" /\ io.write # "failed" /\ io.unlink # "failed") =>
        result = parse_nfo(file)

\* C11: a rating is rounded to one decimal place when it is extracted,
\* whichever strategy extracted it: no returned record holds a rating with
\* more than one fractional digit (8.25 is returned as 8.2 or 8.3).
C11_RatingOneDecimal == pc = "returned" => result["rating"] % 10 = 0

\* C12: the returned record is the output of exactly one accepted strategy:
\* it equals what that strategy extracts from the file into a freshly
\* initialised record, and holds no value written by a strategy that was
\* rejected or raised.
C12_OneStrategyOnly ==
    (pc = "returned" /\ attempts # <<>> /\ Last(attempts).outcome = "accepted") =>
        result = Parser(Last(attempts).n, file, InitialData(defaults)).data

\* the fields of a record that hold a text, and those that hold a list of texts
TextFields ==
    {"title", "originaltitle", "release_date", "plot", "studio", "director",
     "maker", "publisher", "series", "runtime"}

ListFields == {"actors", "genre"}

\* the content spells an ampersand as &amp;, so that a decoded text may
\* rightly hold the characters of an entity reference
HasEscapedAmp(content) ==
    \E x \in 1..(Len(content) - 1) : content[x] = Amp /\ content[x + 1] = Ch("amp;")

\* a text as the cleaning leaves it: no entity reference left to decode
\* (unless the source spelled one with &amp;), no control character, no
\* whitespace at either end
IsCleaned(text) ==
    /\ text # None
    /\ HtmlUnescape(text) # text => HasEscapedAmp(file.content)
    /\ \A x \in 1..Len(text) : ~IsControl(text[x])
    /\ Strip(text) = text

\* C13: every text field of a returned record, whichever strategy wrote it
\* (the alternate-parser fallback included), has had its entities decoded,
\* holds no control character and has no leading or trailing whitespace.
C13_TextFieldsCleaned ==
    pc = "returned" =>
        /\ \A f \in TextFields \cap DOMAIN result : IsCleaned(result[f])
        /\ \A f \in ListFields \cap DOMAIN result :
              \A x \in 1..Len(result[f]) : IsCleaned(result[f][x])

\* no strategy's result passed the acceptance heuristic
NoneAccepted == \A k \in 1..Len(attempts) : attempts[k].outcome # "accepted"

\* C14: when no strategy's result passes the heuristic, parse_nfo returns
\* the record of the last attempted strategy, or the initial default
\* record; when every strategy raised, every field of the returned record
\* equals its initial default.
C14_FallbackRecord ==
    (pc = "returned" /\ NoneAccepted) =>
        /\ result = Last(attempts).data \/ result = InitialData(defaults)
        /\ (\A k \in 1..Len(attempts) : attempts[k].outcome = "raised") =>
              result = InitialData(defaults)

\* no strategy was accepted, and the record returned is not the initial one
C14_Witness ==
    /\ pc = "returned" /\ NoneAccepted
    /\ Len(attempts) = 4
    /\ result # InitialData(defaults)

\* the cleaned text strategy n reads for a tag that names its own field
FieldText(n, tag) ==
    IF ~file.readable THEN <<>>
    ELSE IF n = 3 THEN _extract_field(file.content, tag)
    ELSE LET tree == TreeOf(n)
             e == Find(tree.nodes, 1, tag)
         IN  IF tree.ok /\ HasText(tree.nodes, e) THEN _clean_text(tree.nodes[e].text)
             ELSE <<>>

\* strategy n reads a rating text that is no number
UnparsableRating(n) ==
    LET t == FieldText(n, "rating") IN t # <<>> /\ ~IsFloat(t)

\* C15: when the text of the rating tag is no number, the rating keeps the
\* value it had before extraction, no exception is raised and the strategy
\* is not counted as failed: the other fields it extracted are kept and the
\* result is still judged by the acceptance heuristic (stated of every
\* attempt of strategies 1 to 3 of a call that returned).
C15_UnparsableRatingKept ==
    pc = "returned" =>
    \A k \in 1..Len(attempts) :
        LET a == attempts[k]
            ran == a.n # 2 \/ ScratchIoOk
        IN  (a.n \in 1..3 /\ UnparsableRating(a.n)) =>
                /\ a.data["rating"] = a.before["rating"]
                /\ ran => a.outcome # "raised"
                /\ ran => (a.outcome = "accepted" <=> _has_meaningful_data(a.data, defaults))
                /\ ran => \A f \in {"title", "series", "runtime"} :
                             FieldText(a.n, f) # <<>> => a.data[f] = FieldText(a.n, f)

\* a strategy read a rating that is no number next to a title, kept the
\* configured rating and was accepted for the title
C15_Witness ==
    /\ pc = "returned"
    /\ Last(attempts).outcome = "accepted"
    /\ UnparsableRating(Last(attempts).n)
    /\ result["title"] # <<>>
    /\ result["rating"] = 50

\* the name sub-elements of node x that hold a non-empty cleaned text
NamesOf(nodes, x) ==
    {y \in 1..Len(nodes) :
        nodes[y].parent = x /\ nodes[y].tag = "name" /\ _clean_text(nodes[y].text) # <<>>}

\* the actor elements under the root that have a non-empty name sub-element
NamedActors(nodes) ==
    {x \in 1..Len(nodes) :
        nodes[x].parent = 1 /\ nodes[x].tag = "actor" /\ NamesOf(nodes, x) # {}}

\* actors lists exactly the names of the named actor elements, in the order
\* of the document (the order of the node numbers)
ListsNamedActors(nodes, actors) ==
    /\ Len(actors) = Cardinality(NamedActors(nodes))
    /\ \A x \in NamedActors(nodes) :
          actors[Cardinality({y \in NamedActors(nodes) : y <= x})]
              = _clean_text(nodes[Min(NamesOf(nodes, x))].text)

\* C16: in strategies 1 and 2, actors is the sequence of the cleaned name
\* texts of the actor elements that have a non-empty name sub-element, in
\* document order; an actor element without a name contributes nothing
\* (stated of every attempt of a call that returned).
C16_ActorsInDocumentOrder ==
    pc = "returned" =>
    \A k \in 1..Len(attempts) :
        LET a == attempts[k]
            tree == TreeOf(a.n)
        IN  (a.n \in {1, 2} /\ (a.n = 2 => io.write = "ok") /\ tree.ok) =>
                ListsNamedActors(tree.nodes, a.data["actors"])

\* strategy 1 was accepted with two actors, named b and a in that order
C16_Witness ==
    /\ pc = "returned"
    /\ Last(attempts).n = 1
    /\ result["actors"] = <<Str(<<"b">>), Str(<<"a">>)>>

\* the date tags, in priority order, whose element under the root holds a
\* non-empty cleaned text
DatedTags(nodes) ==
    {x \in 1..Len(date_fields) :
        LET e == Find(nodes, 1, date_fields[x])
        IN  e # 0 /\ _clean_text(nodes[e].text) # <<>>}

\* C17: in strategies 1 and 2, release_date is the cleaned text of the
\* first of releasedate, premiered, release that is present and non-empty;
\* a higher-priority tag with empty content never keeps a lower-priority
\* non-empty tag from being used, so release_date stays empty only when
\* none of the three tags has non-empty content (stated of every attempt
\* of a call that returned).
C17_FirstNonEmptyDate ==
    pc = "returned" =>
    \A k \in 1..Len(attempts) :
        LET a == attempts[k]
            nodes == TreeOf(a.n).nodes
        IN  (a.n \in {1, 2} /\ (a.n = 2 => io.write = "ok") /\ TreeOf(a.n).ok) =>
                a.data["release_date"] =
                    IF DatedTags(nodes) = {} THEN <<>>
                    ELSE _clean_text(nodes[Find(nodes, 1, date_fields[Min(DatedTags(nodes))])].text)

\* the tags whose text is stored under the field of the same name
MappedTags ==
    {"title", "originaltitle", "studio", "director", "maker", "publisher",
     "plot", "series", "runtime", "rating"}

\* texts lists the cleaned non-empty texts of the tag elements under the
\* root, in the order of the document
ListsTexts(nodes, tag, texts) ==
    LET S == {x \in 1..Len(nodes) :
                 nodes[x].parent = 1 /\ nodes[x].tag = tag /\ _clean_text(nodes[x].text) # <<>>}
    IN  /\ Len(texts) = Cardinality(S)
        /\ \A x \in S : texts[Cardinality({y \in S : y <= x})] = _clean_text(nodes[x].text)

\* the record holds, for each mapped tag with a non-empty text, the cleaned
\* text (the rating as a number) and the default otherwise; genre and
\* actors list the document's genres and actor names in order
TagsMapped(nodes, record) ==
    /\ \A f \in MappedTags :
          LET e == Find(nodes, 1, f)
              t == IF HasText(nodes, e) THEN _clean_text(nodes[e].text) ELSE <<>>
          IN  IF f \in DOMAIN record
              THEN record[f] = IF f = "rating"
                               THEN IF t # <<>> /\ IsFloat(t) THEN Float(t)
                                    ELSE FieldDefault(defaults, f)
                               ELSE IF t # <<>> THEN t ELSE FieldDefault(defaults, f)
              ELSE t = <<>>
    /\ ListsTexts(nodes, "genre", record["genre"])
    /\ ListsNamedActors(nodes, record["actors"])

\* the call returned what strategy 1 extracted from a well-formed document
AcceptedAtStrategy1 ==
    /\ pc = "returned"
    /\ Len(attempts) = 1 /\ Last(attempts).outcome = "accepted"
    /\ WellFormed

\* C18 as stated: in a well-formed document accepted at strategy 1 each of
\* the tags title, originaltitle, studio, director, maker, publisher, plot,
\* series, runtime, rating with a non-empty text is stored under its field
\* as cleaned text (rating as a number), genre and actor elements
\* accumulate in document order, and every other field equals its default.
C18_TagsMappedOthersDefault ==
    AcceptedAtStrategy1 =>
        /\ LET tree == TreeOf(1) IN TagsMapped(tree.nodes, result)
        /\ \A f \in DOMAIN result \ (MappedTags \cup ListFields) :
              result[f] = FieldDefault(defaults, f)

\* C18 amended: the same, where every other field but release_date equals
\* its default (release_date is read from the date tags).
C18_TagsMappedOthersButDateDefault ==
    AcceptedAtStrategy1 =>
        /\ LET tree == TreeOf(1) IN TagsMapped(tree.nodes, result)
        /\ \A f \in DOMAIN result \ (MappedTags \cup ListFields \cup {"release_date"}) :
              result[f] = FieldDefault(defaults, f)

\* strategy 1 returned the title a&b read from a&amp;b, a date and the rest
\* at their defaults
C18_Witness ==
    /\ AcceptedAtStrategy1
    /\ result["title"] = Str(<<"a", "&", "b">>)
    /\ HasEscapedAmp(file.content)
    /\ result["release_date"] # <<>>
    /\ result["studio"] = FieldDefault(defaults, "studio")

\* the text holds a C0 control character
HasControl(text) == \E x \in 1..Len(text) : IsControl(text[x])

\* the text holds no ampersand, hence no entity reference
NoAmp(text) == \A x \in 1..Len(text) : text[x] # Amp

\* an accepted strategy returned the title of a document whose first title
\* element holds character data with a control character in it
ControlInTitle ==
    /\ pc = "returned"
    /\ Last(attempts).outcome = "accepted"
    /\ Last(attempts).n \in {1, 2, 3}
    /\ HasPlainTitle(file.content)
    /\ HasControl(TitleSource(file.content))
    /\ Last(attempts).n \in {1, 2} => TitleIsChild(Last(attempts).n)

\* C19 as stated: a title with an embedded NUL or other C0 control
\* character yields a record whose title is the same text with exactly
\* those control characters removed and all other characters kept, in
\* their original order.
C19_OnlyControlRemoved ==
    ControlInTitle => result["title"] = RemoveControl(TitleSource(file.content))

\* C19 amended: a title without entity references and with an embedded
\* control character yields the same text with those control characters
\* removed, each run of whitespace then collapsed to one space and the
\* ends trimmed; every other character is kept, in its original order.
C19_ControlRemovedThenNormalised ==
    (ControlInTitle /\ NoAmp(TitleSource(file.content))) =>
        result["title"] = Strip(CollapseSpace(SelectSeq(TitleSource(file.content),
                                                        LAMBDA t : ~IsControl(t))))

\* strategy 2 returned the title a b for a title that holds a NUL between
\* two spaces
C19_Witness ==
    /\ ControlInTitle
    /\ Last(attempts).n = 2
    /\ \E x \in 1..Len(file.content) : file.content[x] = Ch("NUL")
    /\ result["title"] = Str(<<"a", " ", "b">>)

\* the value now held by the dict object o that an earlier call returned
ValueOf(k) == IF history[k].obj = obj THEN data ELSE history[k].result

\* C20: two parse_nfo calls on the same file contents under the same
\* configuration (the scratch file I/O of strategy 2 going alike in both)
\* return equal records, whatever other calls were made before or between
\* them, and no call modifies a record returned by an earlier call.
C20_CallsIndependent ==
    \A k \in 1..Len(history) :
        /\ ValueOf(k) = history[k].result
        /\ (pc = "returned" /\ history[k].file = file /\ history[k].io = io) =>
               result = history[k].result

\* the third call returned, for the file of the first call, the record the
\* first call returned, after a call on another file that returned another
\* record
C20_Witness ==
    /\ pc = "returned"
    /\ Len(history) = 2
    /\ history[1].file = file /\ history[1].io = io
    /\ history[2].file # file
    /\ history[2].result # history[1].result
    /\ result = history[1].result
    /\ result["title"] # <<>>

\* the nfo_parsing.defaults mapping of the configuration, empty when the
\* configuration has none
ConfiguredDefaults == ConfigGet(config, <<"nfo_parsing", "defaults">>, EmptyDict)

\* the literal each defaulted field falls back to
FallbackLiteral ==
    [rating |-> 0, studio |-> Unknown, director |-> Unknown, plot |-> NoPlot,
     maker |-> Unknown, publisher |-> Unknown, series |-> <<>>]

\* C21: the initial record takes rating, studio, director, plot, maker,
\* publisher and series from the configured nfo_parsing.defaults mapping,
\* found by the dotted key path, and each of them falls back to a literal
\* only when the configuration omits it.
C21_InitialRecordFromConfiguration ==
    (pc = "loop" /\ i = 1) =>
        \A f \in DOMAIN FallbackLiteral :
            data[f] = Get(ConfiguredDefaults, f, FallbackLiteral[f])

\* C22: when deleting the scratch file fails after the sanitized text was
\* parsed and extracted, strategy 2 is not treated as failed: its result is
\* judged by the acceptance heuristic, and strategy 3 is not run merely
\* because the delete failed.
C22_DeleteFailureNotAFailure ==
    \A k \in 1..Len(attempts) :
        LET a == attempts[k]
        IN  (a.n = 2 /\ io.unlink = "failed" /\ TreeOf(2).ok) =>
                a.outcome = IF _has_meaningful_data(a.data, defaults)
                            THEN "accepted" ELSE "rejected"

\* C23 as stated: strategy 4 is attempted only if every earlier strategy
\* raised; it is never attempted in a call where an earlier strategy
\* returned a record without raising.
C23_Strategy4OnlyAfterRaises ==
    \A k \in 1..Len(attempts) :
        attempts[k].n = 4 =>
            \A j \in 1..(k - 1) : attempts[j].outcome = "raised"

\* C23 amended: strategy 4 is attempted only after each of strategies 1, 2
\* and 3 was attempted and either raised or returned a record the
\* acceptance heuristic rejected; it is never attempted in a call where an
\* earlier strategy's record was accepted.
C23_Strategy4OnlyAfterAllFailed ==
    \A k \in 1..Len(attempts) :
        attempts[k].n = 4 =>
            \A m \in 1..3 :
                \E j \in 1..(k - 1) :
                    attempts[j].n = m /\ attempts[j].outcome \in {"raised", "rejected"}

\* strategy 4 was attempted after strategies 1, 2 and 3 each returned a
\* record that was rejected
C23_Witness ==
    /\ Len(attempts) = 4
    /\ attempts[4].n = 4
    /\ \A j \in 1..3 : attempts[j].outcome = "rejected"

\* C24: strategy 3 cannot fail on content: for every readable file,
\* whatever it holds, the attempt of strategy 3 returns a record without
\* raising.
C24_Strategy3NeverRaisesOnContent ==
    \A k \in 1..Len(attempts) :
        (attempts[k].n = 3 /\ file.readable) =>
            /\ attempts[k].outcome # "raised"
            /\ DOMAIN attempts[k].before \subseteq DOMAIN attempts[k].data

\* strategy 3 returned a record for a truncated document with a NUL in it,
\* on which strategies 1 and 2 had raised
C24_Witness ==
    /\ Len(attempts) = 3
    /\ attempts[1].outcome = "raised" /\ attempts[2].outcome = "raised"
    /\ attempts[3].outcome = "accepted"
    /\ io.unlink = "ok"
    /\ \E x \in 1..Len(file.content) : file.content[x] = Ch("NUL")

\* ------------------------------------------------------ C25, C26, C27

\* the applications of a helper made so far
AppliedOf(op) == {k \in 1..Len(applied) : applied[k].op = op}

\* the named references of the alphabet, and the numeric one
NamedTails == {Ch("amp;"), Ch("lt;")}

\* each character of s replaced by piece(j), in place
Pieces(s, piece(_)) ==
    LET F[j \in 0..Len(s)] == IF j = 0 THEN <<>> ELSE F[j - 1] \o piece(j)
    IN  F[Len(s)]

\* the sanitizer as the claim words it: a control character of the ranges
\* goes, an & of the given text that does not begin a named reference
\* becomes &amp;, every other character stays
StatedSanitizer(s) ==
    Pieces(s, LAMBDA j :
        IF IsStrippedControl(s[j]) THEN <<>>
        ELSE IF s[j] = Amp /\ ~(j < Len(s) /\ s[j + 1] \in NamedTails)
             THEN <<Amp, Ch("amp;")>>
             ELSE <<s[j]>>)

\* C25 as stated: the sanitizer removes every control character of the
\* ranges and replaces by &amp; every & that does not begin one of the five
\* standard entity references; every other character is left in place.
C25_EscapesAllButNamed ==
    \A k \in AppliedOf("_fix_xml_issues") : applied[k].value = StatedSanitizer(applied[k].arg)

\* the text without the control characters of the ranges
WithoutStripped(s) == SelectSeq(s, LAMBDA t : ~IsStrippedControl(t))

\* C25 amended: the sanitizer removes every control character of the ranges
\* and then, in the text so obtained, replaces by &amp; every & that begins
\* neither a standard entity reference nor a numeric character reference;
\* every other character is left unchanged and in place.
C25_EscapesAllButReferences ==
    \A k \in AppliedOf("_fix_xml_issues") :
        LET kept == WithoutStripped(applied[k].arg)
        IN  applied[k].value =
                Pieces(kept, LAMBDA j :
                    IF kept[j] = Amp
                       /\ ~(j < Len(kept) /\ kept[j + 1] \in NamedTails \cup {Ch("#65;")})
                    THEN <<Amp, Ch("amp;")>>
                    ELSE <<kept[j]>>)

\* the sanitizer met a control character, a bare & and a numeric reference
C25_Witness ==
    /\ Len(applied) = 1
    /\ applied[1].op = "_fix_xml_issues"
    /\ applied[1].arg = <<Ch("NUL"), Amp, Amp, Ch("#65;")>>
    /\ applied[1].value = <<Amp, Ch("amp;"), Amp, Ch("#65;")>>

\* every & of the text starts a reference the sanitizer recognises
EveryAmpStartsReference(s) ==
    \A j \in 1..Len(s) : s[j] = Amp => (j < Len(s) /\ IsEntityTail(s[j + 1]))

\* C26: _fix_xml_issues is idempotent: applied to its own output it changes
\* nothing; its output has no character of the stripped ranges and no &
\* other than one that starts a reference the sanitizer recognises.
C26_SanitizerIdempotent ==
    \A k \in AppliedOf("_fix_xml_issues") :
        /\ \A j \in 1..Len(applied[k].value) : ~IsStrippedControl(applied[k].value[j])
        /\ EveryAmpStartsReference(applied[k].value)
        /\ (k > 1 /\ applied[k - 1].op = "_fix_xml_issues") => applied[k].value = applied[k].arg

\* the sanitizer ran on its own output, having changed the text the first time
C26_Witness ==
    /\ Len(applied) = 2
    /\ applied[1].op = "_fix_xml_issues" /\ applied[2].op = "_fix_xml_issues"
    /\ applied[1].value # applied[1].arg
    /\ \E j \in 1..Len(input) : input[j] = Amp
    /\ \E j \in 1..Len(input) : input[j] = Ch("NUL")

\* C27: the output of _clean_text never contains a control character, never
\* two adjacent whitespace characters, never starts or ends with whitespace,
\* and a tab between two words is deleted, joining the words, rather than
\* replaced by a single space.
C27_CleanTextShape ==
    \A k \in AppliedOf("_clean_text") :
        LET arg == applied[k].arg
            out == applied[k].value
        IN  /\ \A j \in 1..Len(out) : ~IsControl(out[j])
            /\ \A j \in 1..(Len(out) - 1) : ~(IsSpace(out[j]) /\ IsSpace(out[j + 1]))
            /\ out # <<>> => (~IsSpace(out[1]) /\ ~IsSpace(out[Len(out)]))
            /\ \A j \in 2..(Len(arg) - 1) :
                   (arg[j] = Ch("TAB") /\ arg[j - 1] = Ch("a") /\ arg[j + 1] = Ch("a")) =>
                       \E m \in 1..(Len(out) - 1) : out[m] = Ch("a") /\ out[m + 1] = Ch("a")

\* _clean_text joined two words that a tab held apart
C27_Witness ==
    /\ Len(applied) = 1
    /\ applied[1].op = "_clean_text"
    /\ applied[1].arg = <<Ch(" "), Ch("a"), Ch("TAB"), Ch("a")>>
    /\ applied[1].value = <<Ch("a"), Ch("a")>>

\* ------------------------------------------------------------------ C28

\* the number of times x stands in the list
Count(x, list) == Cardinality({j \in 1..Len(list) : list[j] = x})

\* the cleaned texts of the elements <tag>...</tag> of the document, one
\* per occurrence, as a function from the positions of their opening tags
DocEntries(tag) ==
    LET c == file.content
        opens == {p \in 1..Len(c) : c[p] = Open(tag) /\ \E q \in (p + 1)..Len(c) : c[q] = Close(tag)}
        close(p) == CHOOSE q \in (p + 1)..Len(c) :
                        c[q] = Close(tag) /\ \A r \in (p + 1)..(q - 1) : c[r] # Close(tag)
    IN  [p \in opens |-> _clean_text(SubSeq(c, p + 1, close(p) - 1))]

\* the number of occurrences in the document of an entry with text x
DocCount(tag, x) == Cardinality({p \in DOMAIN DocEntries(tag) : DocEntries(tag)[p] = x})

\* the attempt ran its extraction: a strategy 1, 2 or 3 that returned, or a
\* strategy 2 that raised only when it deleted its scratch file
Extracted(a) ==
    /\ a.n \in 1..3
    /\ a.outcome # "raised" \/ (a.n = 2 /\ io.unlink = "failed" /\ TreeOf(2).ok)

\* the list holds each entry of the document once per occurrence
OncePerOccurrence(list, tag) ==
    /\ \A j \in 1..Len(list) : Count(list[j], list) = DocCount(tag, list[j])
    /\ \A p \in DOMAIN DocEntries(tag) :
           DocEntries(tag)[p] # <<>> => Count(DocEntries(tag)[p], list) = DocCount(tag, DocEntries(tag)[p])

\* C28: every strategy that extracts the genre and actors lists rebuilds
\* them from empty, so after each extraction, and in the returned record,
\* the lists hold each document entry once per occurrence and never entries
\* accumulated from two strategy runs.
C28_ListsRebuiltByEveryStrategy ==
    /\ \A k \in 1..Len(attempts) :
           Extracted(attempts[k]) =>
               /\ OncePerOccurrence(attempts[k].data["genre"], "genre")
               /\ OncePerOccurrence(attempts[k].data["actors"], "name")
    /\ (pc = "returned" /\ \E k \in 1..Len(attempts) : Extracted(attempts[k])) =>
           /\ OncePerOccurrence(result["genre"], "genre")
           /\ OncePerOccurrence(result["actors"], "name")

\* strategy 2 extracted an actor and was lost to the failed deletion of its
\* scratch file; strategy 3 extracted the document again and was accepted
C28_Witness ==
    /\ pc = "returned"
    /\ Len(attempts) = 3
    /\ attempts[2].outcome = "raised" /\ Extracted(attempts[2])
    /\ Len(attempts[2].data["actors"]) = 1
    /\ attempts[3].outcome = "accepted"
    /\ attempts[3].before["actors"] = attempts[2].data["actors"]
    /\ result["actors"] = attempts[2].data["actors"]

\* ------------------------------------------------------------------ C29

\* the file is a thumbnail image
IsThumbnail(name) == name.ext \in image_extensions /\ extract_file_type(name) = "THUMB"

\* the file is a poster image
IsPoster(name) == name.ext \in image_extensions /\ extract_file_type(name) = "POSTER"

DefaultKeywords == scanner.poster_keywords = {"poster", "cover", "thumb"}

\* C29: with the default keywords a thumbnail image sets poster_path only
\* if no poster has been recorded yet; once a poster image has been
\* recorded, a thumbnail classified later never replaces it, in whatever
\* order the files are scanned.
C29_ThumbnailOnlySupplements ==
    DefaultKeywords =>
        \A k \in 1..Len(scanned) :
            (IsThumbnail(scanned[k].name) /\ scanned[k].before.poster_path # NoPath) =>
                scanned[k].after.poster_path = scanned[k].before.poster_path

\* ------------------------------------------------------------------ C30

\* C30: for every film page produced by generate_markdown, the front-matter
\* extraction returns exactly the actor list that _format_actors wrote into
\* that page, for every title and actor name, and every actor of every
\* film gets an actor page that lists that film.
C30_ActorsRoundTrip ==
    extracted # EmptyDict =>
        \A k \in 1..Len(films) :
            /\ extracted[films[k].code] = films[k].actors
            /\ \A j \in 1..Len(films[k].actors) :
                   /\ films[k].actors[j] \in DOMAIN actor_works
                   /\ \E m \in 1..Len(actor_works[films[k].actors[j]]) :
                          actor_works[films[k].actors[j]][m] = films[k].code

====
